---- MODULE Spec2Model ----
(***************************************************************************)
(* A model of the two core pieces of the girgs generators:                 *)
(*   - satgirgs/source/Generator.cpp : deduplicateEdges and generateEdges  *)
(*   - hypergirgs/source/RadiusLayer.cpp : the RadiusLayer constructor and *)
(*     its queries pointsInCell and kthPoint                               *)
(* Three groups of variables, one per piece, and one specification per     *)
(* piece (SpecDedup, SpecLayer, SpecGen / SpecSel).  C++ vectors indexed   *)
(* from 0 are functions over 0..n-1 where the code indexes them, and       *)
(* sequences where the code only appends to and iterates over them.        *)
(***************************************************************************)
EXTENDS Integers, Sequences, FiniteSets, Bags, TLC

(* ---- bounds of the model ---- *)
\* deduplicateEdges: longest raw edge list, largest node index
MaxEdges == 3
MaxNode == 2
\* RadiusLayer: deepest target level, size of the node population
MaxLevel == 2
MaxPoints == 3
\* generateEdges: workers, source (clause) nodes, block size, target nodes
MaxWorkers == 2
MaxSources == 3
MaxBlock == 2
MaxTargets == 3

VARIABLES
    \* deduplicateEdges
    raw,            \* the edge list as the caller passed it
    edges,          \* the same vector, which the function sorts in place
    new_edges,      \* the returned triples
    frontRead,      \* what the read of edges[0] touched: "none" | "valid" | "invalid"
    dpc,            \* "call" | "returned" | "crashed"
    \* RadiusLayer
    nodes,          \* constructor argument: the node ids of the layer
    angles,         \* constructor argument: angle of every node id
    m_target_level,
    m_prefix_sums,
    m_points,
    lpc,            \* "new" | "built" ("idle" outside SpecLayer)
    qres,           \* the last query and what it returned
    \* generateEdges
    numSources,     \* c_nodes.size()
    numTargets,     \* nc_nodes.size()
    dist,           \* dist[s][t]: weightedDistance of target t to source s
    debugMode,
    block_size,
    num_threads,
    chunk,          \* chunk[w]: the sources worker w owns (static schedule)
    local_edges,    \* local_edges[w]: worker w's private buffer
    result,         \* the shared result vector
    m,              \* the mutex: 0 free, w held by worker w, -1 by the main thread
    wpc,            \* position of each worker
    todo,           \* todo[w]: addEdge calls left in worker w's current iteration
    done,           \* done[w]: iterations worker w has finished or begun
    mainIdx,        \* the final loop over local_edges
    gpc,            \* "parallel" | "final" | "returned"
    lockCount       \* acquisitions of m so far

dvars == <<raw, edges, new_edges, frontRead, dpc>>
lvars == <<nodes, angles, m_target_level, m_prefix_sums, m_points, lpc, qres>>
gvars == <<numSources, numTargets, dist, debugMode, block_size, num_threads, chunk,
           local_edges, result, m, wpc, todo, done, mainIdx, gpc, lockCount>>
vars == <<dvars, lvars, gvars>>

\* the parts of the state a specification does not use
DedupIdle ==
    /\ raw = <<>> /\ edges = <<>> /\ new_edges = <<>>
    /\ frontRead = "none" /\ dpc = "idle"
LayerIdle ==
    /\ nodes = <<>> /\ angles = <<>> /\ m_target_level = 0
    /\ m_prefix_sums = <<>> /\ m_points = <<>> /\ lpc = "idle" /\ qres = <<>>
GenIdle ==
    /\ numSources = 0 /\ numTargets = 0 /\ dist = <<>> /\ debugMode = FALSE
    /\ block_size = 1 /\ num_threads = 0 /\ chunk = <<>> /\ local_edges = <<>>
    /\ result = <<>> /\ m = 0 /\ wpc = <<>> /\ todo = <<>> /\ done = <<>>
    /\ mainIdx = 0 /\ gpc = "idle" /\ lockCount = 0

(***************************************************************************)
(* deduplicateEdges (Generator.cpp 64-83)                                  *)
(***************************************************************************)
Pairs == (0..MaxNode) \X (0..MaxNode)

\* operator< of std::pair<int,int>: lexicographic
PairLess(a, b) == a[1] < b[1] \/ (a[1] = b[1] /\ a[2] < b[2])

RECURSIVE InsertSorted(_, _)
InsertSorted(s, e) ==
    IF s = <<>> THEN <<e>>
    ELSE IF PairLess(e, Head(s)) THEN <<e>> \o s
    ELSE <<Head(s)>> \o InsertSorted(Tail(s), e)

\* sort(edges.begin(), edges.end()): the ascending permutation of the list
RECURSIVE SortEdges(_)
SortEdges(s) == IF s = <<>> THEN <<>> ELSE InsertSorted(SortEdges(Tail(s)), Head(s))

SameAsLastFirstOnly(edge, last) == edge[1] = last[1]
\* if(edge == last)
SameAsLast(edge, last) == edge = last

\* the for loop of lines 71-81, from element i on
RECURSIVE ScanRuns(_, _, _, _, _)
ScanRuns(es, i, last, run_length, out) ==
    IF i > Len(es) THEN out
    ELSE IF SameAsLast(es[i], last)
         THEN ScanRuns(es, i + 1, es[i], run_length + 1, out)
         ELSE ScanRuns(es, i + 1, es[i], 1,
                       Append(out, <<last[1], last[2], run_length>>))

\* the function on a non-empty list: sort, last = edges[0], run_length = 0, scan
deduplicateEdges(es) ==
    LET sorted == SortEdges(es)
    IN  ScanRuns(sorted, 1, sorted[1], 0, <<>>)

InitDedup ==
    /\ raw \in UNION {[1..n -> Pairs] : n \in 0..MaxEdges}
    /\ edges = raw
    /\ new_edges = <<>>
    /\ frontRead = "none"
    /\ dpc = "call"
    /\ LayerIdle /\ GenIdle

Deduplicate ==
    /\ dpc = "call"
    /\ edges # <<>>
    /\ edges' = SortEdges(edges)
    /\ frontRead' = "valid"
    /\ new_edges' = deduplicateEdges(edges)
    /\ dpc' = "returned"
    /\ UNCHANGED <<raw, lvars, gvars>>

\* On an empty vector sort does nothing and edges[0] reads past the (possibly
\* null) buffer: undefined behaviour.  The build either faults there or reads
\* garbage into last, skips the loop over no elements and returns no triples.
DeduplicateEmpty ==
    /\ dpc = "call"
    /\ edges = <<>>
    /\ frontRead' = "invalid"
    /\ dpc' \in {"returned", "crashed"}
    /\ new_edges' = <<>>
    /\ UNCHANGED <<raw, edges, lvars, gvars>>

NextDedup == Deduplicate \/ DeduplicateEmpty

SpecDedup == InitDedup /\ [][NextDedup]_vars

(* ---- claims about deduplicateEdges ---- *)
Canonical(es) == \A i \in 1..Len(es) : es[i][1] <= es[i][2]
Occurrences(p, es) == Cardinality({i \in 1..Len(es) : es[i] = p})
Canon(p) == IF p[1] <= p[2] THEN p ELSE <<p[2], p[1]>>
TriplesOf(p) == {i \in 1..Len(new_edges) : <<new_edges[i][1], new_edges[i][2]>> = p}

\* C1: on a non-empty canonical input the triples expand back to the sorted
\* input: every distinct pair of the input, the largest included, has exactly
\* one triple, whose mult is its number of occurrences, and no other triple
\* exists.
C1_RoundTrip ==
    (dpc = "returned" /\ raw # <<>> /\ Canonical(raw)) =>
        /\ \A i \in 1..Len(raw) :
              /\ Cardinality(TriplesOf(raw[i])) = 1
              /\ \A j \in TriplesOf(raw[i]) : new_edges[j][3] = Occurrences(raw[i], raw)
        /\ \A j \in 1..Len(new_edges) :
              Occurrences(<<new_edges[j][1], new_edges[j][2]>>, raw) > 0

\* C5: an empty edge list is special-cased: the call ends with an empty result
\* or a labelled failure and edges[0] is never read.
C5_EmptyIsSpecialCased ==
    (dpc # "call" /\ raw = <<>>) =>
        /\ frontRead # "invalid"
        /\ dpc \in {"returned", "failed"}
        /\ new_edges = <<>>

Base == 2
numCellsInLevel(level) == Base ^ level
firstCellOfLevel(level) == (Base ^ level - 1) \div (Base - 1)
AngleRes == numCellsInLevel(MaxLevel)
cellForPoint(angle, level) == (angle * numCellsInLevel(level)) \div AngleRes
\* the parent of a cell (numbered over all levels) of level `level` >= 1
parent(cell, level) ==
    firstCellOfLevel(level - 1) + (cell - firstCellOfLevel(level)) \div Base

NodeIds == 0..(MaxPoints - 1)
NoPoint == -1     \* a value-initialized Point of m_points.resize

\* lines 23-27: count the points of each cell, i the position in nodes
RECURSIVE CountCells(_, _, _, _, _)
CountCells(ns, ang, targetLevel, i, sums) ==
    IF i > Len(ns) THEN sums
    ELSE LET cell == cellForPoint(ang[ns[i]], targetLevel)
         IN  CountCells(ns, ang, targetLevel, i + 1, [sums EXCEPT ![cell] = @ + 1])

ScanStepInclusive(sums, i, sum) == sum + sums[i]
\* lines 34-35: the value written to entry i when the running sum is `sum`
ScanStep(sums, i, sum) == sum

\* lines 31-38: the exclusive prefix sums, in place, from entry i on
RECURSIVE ExclusiveScan(_, _, _, _)
ExclusiveScan(sums, i, last, sum) ==
    IF i > last THEN sums
    ELSE ExclusiveScan([sums EXCEPT ![i] = ScanStep(sums, i, sum)], i + 1, last,
                       sum + sums[i])

\* lines 43-48: the counting sort's second pass
RECURSIVE FillPoints(_, _, _, _, _, _, _)
FillPoints(ns, ang, targetLevel, sums, i, pts, num_inserted) ==
    IF i > Len(ns) THEN pts
    ELSE LET targetCell == cellForPoint(ang[ns[i]], targetLevel)
         IN  FillPoints(ns, ang, targetLevel, sums, i + 1,
                        [pts EXCEPT ![sums[targetCell] + num_inserted[targetCell]] = ns[i]],
                        [num_inserted EXCEPT ![targetCell] = @ + 1])

\* m_prefix_sums after the constructor
BuildPrefixSums(ns, ang, targetLevel) ==
    LET cellsInLevel == numCellsInLevel(targetLevel)
        counted == CountCells(ns, ang, targetLevel, 1, [c \in 0..cellsInLevel |-> 0])
    IN  ExclusiveScan(counted, 0, cellsInLevel, 0)

\* m_points after the constructor
BuildPoints(ns, ang, targetLevel, sums) ==
    LET cellsInLevel == numCellsInLevel(targetLevel)
        total == sums[cellsInLevel]      \* m_prefix_sums.back()
    IN  FillPoints(ns, ang, targetLevel, sums, 1,
                   [j \in 0..(total - 1) |-> NoPoint],
                   [c \in 0..(cellsInLevel - 1) |-> 0])

BlockCountWithoutLast(begin, end) == m_prefix_sums[end] - m_prefix_sums[begin]
\* line 66: the value returned for the descendant block begin..end
BlockCount(begin, end) ==
    m_prefix_sums[end] - m_prefix_sums[begin] + (m_prefix_sums[end + 1] - m_prefix_sums[end])

\* lines 51-67
pointsInCell(cell, level) ==
    LET descendants == numCellsInLevel(m_target_level - level)
        localIndexCell == cell - firstCellOfLevel(level)
        localIndexDescendant == localIndexCell * descendants
        begin == localIndexDescendant
        end == begin + descendants - 1
    IN  BlockCount(begin, end)

FirstDescendantUnscaled(cell, level) == cell - firstCellOfLevel(level)
\* lines 74-77 (the same in pointsInCell): the first descendant of cell in the
\* target level
FirstDescendant(cell, level) ==
    LET descendants == numCellsInLevel(m_target_level - level)
        localIndexCell == cell - firstCellOfLevel(level)
    IN  localIndexCell * descendants

\* lines 69-80
kthPoint(cell, level, k) == m_points[m_prefix_sums[FirstDescendant(cell, level)] + k]

CellsOfLevel(level) == firstCellOfLevel(level)..(firstCellOfLevel(level + 1) - 1)

\* the inputs: the node ids of the layer in increasing order (ids are names
\* only, so every order of distinct ids is one of these up to renaming), the
\* angle of each, 0 for the ids not in the layer
InitLayer ==
    /\ m_target_level \in 0..MaxLevel
    /\ \E S \in SUBSET NodeIds :
          /\ nodes \in {ns \in [1..Cardinality(S) -> S] :
                           \A i, j \in 1..Cardinality(S) : i < j => ns[i] < ns[j]}
          /\ angles \in {a \in [NodeIds -> 0..(AngleRes - 1)] :
                            \A n \in NodeIds \ S : a[n] = 0}
    /\ m_prefix_sums = <<>>
    /\ m_points = <<>>
    /\ lpc = "new"
    /\ qres = [op |-> "none", cell |-> 0, level |-> 0, k |-> 0, value |-> 0]
    /\ DedupIdle /\ GenIdle

Construct ==
    /\ lpc = "new"
    /\ m_prefix_sums' = BuildPrefixSums(nodes, angles, m_target_level)
    /\ m_points' = BuildPoints(nodes, angles, m_target_level, m_prefix_sums')
    /\ lpc' = "built"
    /\ UNCHANGED <<nodes, angles, m_target_level, qres, dvars, gvars>>

\* Both queries are const methods: they leave the layer as constructed, so a
\* behaviour records one query and a later query would see the same layer.
QueryPointsInCell ==
    /\ lpc = "built"
    /\ qres.op = "none"
    /\ \E level \in 0..m_target_level : \E cell \in CellsOfLevel(level) :
          qres' = [op |-> "pointsInCell", cell |-> cell, level |-> level, k |-> 0,
                   value |-> pointsInCell(cell, level)]
    /\ UNCHANGED <<nodes, angles, m_target_level, m_prefix_sums, m_points, lpc,
                   dvars, gvars>>

\* the caller guarantees 0 <= k < pointsInCell(cell, level)
QueryKthPoint ==
    /\ lpc = "built"
    /\ qres.op = "none"
    /\ \E level \in 0..m_target_level : \E cell \in CellsOfLevel(level) :
       \E k \in 0..(pointsInCell(cell, level) - 1) :
          qres' = [op |-> "kthPoint", cell |-> cell, level |-> level, k |-> k,
                   value |-> kthPoint(cell, level, k)]
    /\ UNCHANGED <<nodes, angles, m_target_level, m_prefix_sums, m_points, lpc,
                   dvars, gvars>>

NextLayer == Construct \/ QueryPointsInCell \/ QueryKthPoint

SpecLayer == InitLayer /\ [][NextLayer]_vars

(* ---- claims about RadiusLayer ---- *)
\* the brute-force reference: walk every input point's finest cell up to the
\* level asked for, parent by parent
InputPoints == {nodes[i] : i \in 1..Len(nodes)}
FinestCell(n) ==
    firstCellOfLevel(m_target_level) + cellForPoint(angles[n], m_target_level)
RECURSIVE AncestorAt(_, _, _)
AncestorAt(cell, level, L) ==
    IF level <= L THEN cell ELSE AncestorAt(parent(cell, level), level - 1, L)
PointsBelow(cell, level) ==
    {n \in InputPoints : AncestorAt(FinestCell(n), m_target_level, level) = cell}

\* C2: pointsInCell(c, L) is the brute-force count of the input points whose
\* finest cell descends from c, for every level L <= target_level and every
\* cell c of L: checked for all cells at once on the layer as constructed
\* (queries do not change it), and for the value every query returned.
C2_PointsInCellIsRecount ==
    lpc = "built" =>
        /\ qres.op = "none" =>
              \A level \in 0..m_target_level : \A cell \in CellsOfLevel(level) :
                 pointsInCell(cell, level) = Cardinality(PointsBelow(cell, level))
        /\ qres.op = "pointsInCell" =>
              qres.value = Cardinality(PointsBelow(qres.cell, qres.level))

\* a query of a coarser cell that is not the first of its level and owns some
\* but not all of the points
C2_Witness ==
    /\ lpc = "built"
    /\ qres.op = "pointsInCell"
    /\ qres.level < m_target_level
    /\ qres.cell > firstCellOfLevel(qres.level)
    /\ qres.value >= 2
    /\ qres.value < Len(nodes)

\* C3: kthPoint(c, L, k), k = 0 .. pointsInCell(c, L) - 1, returns each input
\* point below c for exactly one k and nothing else: checked for all cells at
\* once on the layer as constructed, and for the point every query returned.
C3_KthPointEnumerates ==
    lpc = "built" =>
        /\ qres.op = "none" =>
           \A level \in 0..m_target_level : \A cell \in CellsOfLevel(level) :
              LET ks == 0..(pointsInCell(cell, level) - 1)
              IN  /\ {kthPoint(cell, level, k) : k \in ks} = PointsBelow(cell, level)
                  /\ \A k1, k2 \in ks :
                        k1 # k2 => kthPoint(cell, level, k1) # kthPoint(cell, level, k2)
        /\ qres.op = "kthPoint" => qres.value \in PointsBelow(qres.cell, qres.level)

\* a query for a later point of a coarser cell that is not the first of its
\* level, in a layer with points before that cell
C3_Witness ==
    /\ lpc = "built"
    /\ qres.op = "kthPoint"
    /\ qres.level < m_target_level
    /\ qres.cell > firstCellOfLevel(qres.level)
    /\ qres.k >= 1
    /\ m_prefix_sums[FirstDescendant(qres.cell, qres.level)] >= 1

\* C9: after the constructor prefix_sums has numCellsInLevel(target_level) + 1
\* entries, starts at 0, never decreases, ends at the number of points, and
\* the slice of points between two consecutive entries holds exactly the input
\* points of that finest cell.
C9_PrefixSumsInvariant ==
    lpc = "built" =>
        LET cells == numCellsInLevel(m_target_level)
        IN  /\ DOMAIN m_prefix_sums = 0..cells
            /\ m_prefix_sums[0] = 0
            /\ \A c \in 0..(cells - 1) : m_prefix_sums[c] <= m_prefix_sums[c + 1]
            /\ m_prefix_sums[cells] = Len(nodes)
            /\ DOMAIN m_points = 0..(Len(nodes) - 1)
            /\ \A c \in 0..(cells - 1) :
                  {m_points[j] : j \in m_prefix_sums[c]..(m_prefix_sums[c + 1] - 1)}
                      = {n \in InputPoints : cellForPoint(angles[n], m_target_level) = c}

\* finest cells [0, 0, 1] of three points in a level of four cells
C9_Witness ==
    /\ lpc = "built"
    /\ m_target_level = 2
    /\ Len(nodes) = 3
    /\ m_prefix_sums = [c \in 0..4 |-> IF c = 0 THEN 0 ELSE IF c = 1 THEN 2 ELSE 3]

(***************************************************************************)
(* generateEdges (Generator.cpp 85-144)                                    *)
(*                                                                         *)
(* Sources (c_nodes) are 0..numSources-1 and targets (nc_nodes) are        *)
(* 0..numTargets-1, the position of a target being its index (line 59 with *)
(* offset 0).  Node2D is not among the sources: weightedDistance is the    *)
(* opaque dist[s][t] and operator== compares the index.  Distances are     *)
(* only compared, so a row of distances is given by the weak order of its  *)
(* targets: values 0..k with every value taken.                            *)
(***************************************************************************)
Sources == 0..(numSources - 1)
Targets == 0..(numTargets - 1)
Workers == 1..num_threads

Rows(n) ==
    {r \in [0..(n - 1) -> 0..(n - 1)] :
        \E k \in 0..(n - 1) : {r[t] : t \in 0..(n - 1)} = 0..k}

weightedDistance(t, cp) == dist[cp][t]
NodeEq(a, b) == a = b

\* the comparator of line 122
LessNearest(cp, a, b) == weightedDistance(a, cp) < weightedDistance(b, cp)

LessSecondNoSkip(cp, nearest, a, b) == weightedDistance(a, cp) < weightedDistance(b, cp)
\* the comparator of lines 123-127
LessSecond(cp, nearest, a, b) ==
    IF NodeEq(a, nearest) THEN FALSE
    ELSE IF NodeEq(b, nearest) THEN TRUE
    ELSE weightedDistance(a, cp) < weightedDistance(b, cp)

\* std::min_element over nc_nodes with the comparator of line 122: `it` walks
\* the range, `smallest` is replaced when comp(*it, *smallest)
RECURSIVE MinNearest(_, _, _)
MinNearest(cp, it, smallest) ==
    IF it >= numTargets THEN smallest
    ELSE MinNearest(cp, it + 1, IF LessNearest(cp, it, smallest) THEN it ELSE smallest)

\* std::min_element with the comparator of lines 123-127
RECURSIVE MinSecond(_, _, _, _)
MinSecond(cp, nearest, it, smallest) ==
    IF it >= numTargets THEN smallest
    ELSE MinSecond(cp, nearest, it + 1,
                   IF LessSecond(cp, nearest, it, smallest) THEN it ELSE smallest)

nearestOf(cp) == MinNearest(cp, 1, 0)
secondNearestOf(cp) == MinSecond(cp, nearestOf(cp), 1, 0)

\* lines 129-137: the (u, v) of the addEdge calls of iteration clauseIndex
EdgeCalls(clauseIndex) ==
    IF debugMode
    THEN << <<nearestOf(clauseIndex), numTargets + clauseIndex>>,
            <<secondNearestOf(clauseIndex), numTargets + clauseIndex>> >>
    ELSE << <<nearestOf(clauseIndex), secondNearestOf(clauseIndex)>> >>

\* line 107: if(u > v) std::swap(u, v)
SwapIfGreater(e) == IF e[1] > e[2] THEN <<e[2], e[1]>> ELSE e

BlockFullAtAny(local) == Len(local) >= 1
\* line 109: local.size() == block_size
BlockFull(local) == Len(local) = block_size

BufferKept(local) == local
\* line 111: local.clear()
BufferCleared(local) == <<>>

\* schedule(static): worker w owns one contiguous chunk, chunks in worker order
ChunkFrom(first, size) == [i \in 1..size |-> first + i - 1]
RECURSIVE SumTo(_, _)
SumTo(f, n) == IF n = 0 THEN 0 ELSE f[n] + SumTo(f, n - 1)
StaticPartitions(T, n) ==
    {[w \in 1..T |-> ChunkFrom(SumTo(sz, w - 1), sz[w])] :
        sz \in {z \in [1..T -> 0..n] : SumTo(z, T) = n}}

\* the state on entry of the parallel region
EnterParallel ==
    /\ local_edges = [w \in Workers |-> <<>>]
    /\ result = <<>>
    /\ m = 0
    /\ wpc = [w \in Workers |-> "loop"]
    /\ todo = [w \in Workers |-> <<>>]
    /\ done = [w \in Workers |-> 0]
    /\ mainIdx = 0
    /\ gpc = "parallel"
    /\ lockCount = 0

\* every number of workers, static partition, block size and mode, on three
\* targets whose distances rotate with the source, so that different sources
\* emit different edges in both modes
InitGen ==
    /\ num_threads \in 1..MaxWorkers
    /\ numSources \in 0..MaxSources
    /\ numTargets = 3
    /\ dist = [s \in Sources |-> [t \in Targets |-> (s + t) % numTargets]]
    /\ debugMode \in BOOLEAN
    /\ block_size \in 1..MaxBlock
    /\ chunk \in StaticPartitions(num_threads, numSources)
    /\ EnterParallel
    /\ DedupIdle /\ LayerIdle

\* every target sequence and every order of its distances, one worker
InitSel ==
    /\ num_threads = 1
    /\ numSources \in {1, 2}
    /\ numTargets \in 1..MaxTargets
    /\ dist \in [Sources -> Rows(numTargets)]
    /\ debugMode \in BOOLEAN
    /\ block_size = 2
    /\ chunk \in StaticPartitions(num_threads, numSources)
    /\ EnterParallel
    /\ DedupIdle /\ LayerIdle

gconst == <<numSources, numTargets, dist, debugMode, block_size, num_threads, chunk>>

\* lines 118-127: worker w takes the next clauseIndex of its chunk and finds
\* the two targets; the addEdge calls of the iteration are then due
StartIteration(w) ==
    /\ gpc = "parallel"
    /\ wpc[w] = "loop"
    /\ done[w] < Len(chunk[w])
    /\ todo' = [todo EXCEPT ![w] = EdgeCalls(chunk[w][done[w] + 1])]
    /\ done' = [done EXCEPT ![w] = @ + 1]
    /\ wpc' = [wpc EXCEPT ![w] = "addEdge"]
    /\ UNCHANGED <<local_edges, result, m, mainIdx, gpc, lockCount, gconst, dvars, lvars>>

\* lines 105-109: swap, emplace_back, test for a full block
AddEdge(w) ==
    /\ wpc[w] = "addEdge"
    /\ LET local == Append(local_edges[w], SwapIfGreater(Head(todo[w])))
       IN  /\ local_edges' = [local_edges EXCEPT ![w] = local]
           /\ todo' = [todo EXCEPT ![w] = Tail(@)]
           /\ wpc' = [wpc EXCEPT ![w] =
                         IF BlockFull(local) THEN "lock"
                         ELSE IF Tail(todo[w]) = <<>> THEN "loop" ELSE "addEdge"]
    /\ UNCHANGED <<result, m, done, mainIdx, gpc, lockCount, gconst, dvars, lvars>>

\* line 101: std::lock_guard acquires m
Lock(w) ==
    /\ wpc[w] = "lock"
    /\ m = 0
    /\ m' = w
    /\ lockCount' = lockCount + 1
    /\ wpc' = [wpc EXCEPT ![w] = "insert"]
    /\ UNCHANGED <<local_edges, result, todo, done, mainIdx, gpc, gconst, dvars, lvars>>

\* lines 102-103 and 111: result.insert, the guard releases m, local.clear()
InsertUnlockClear(w) ==
    /\ wpc[w] = "insert"
    /\ m = w
    /\ result' = result \o local_edges[w]
    /\ m' = 0
    /\ local_edges' = [local_edges EXCEPT ![w] = BufferCleared(@)]
    /\ wpc' = [wpc EXCEPT ![w] = IF todo[w] = <<>> THEN "loop" ELSE "addEdge"]
    /\ UNCHANGED <<todo, done, mainIdx, gpc, lockCount, gconst, dvars, lvars>>

\* the implicit barrier at the end of the parallel for
Barrier ==
    /\ gpc = "parallel"
    /\ \A w \in Workers : wpc[w] = "loop" /\ done[w] = Len(chunk[w])
    /\ gpc' = "final"
    /\ mainIdx' = 1
    /\ UNCHANGED <<local_edges, result, m, wpc, todo, done, lockCount, gconst, dvars, lvars>>

\* lines 140-141: flush(v.first) for the next buffer, by the main thread alone
FinalFlush ==
    /\ gpc = "final"
    /\ mainIdx <= num_threads
    /\ m = 0
    /\ lockCount' = lockCount + 1
    /\ result' = result \o local_edges[mainIdx]
    /\ mainIdx' = mainIdx + 1
    /\ UNCHANGED <<local_edges, m, wpc, todo, done, gpc, gconst, dvars, lvars>>

\* line 143
Return ==
    /\ gpc = "final"
    /\ mainIdx > num_threads
    /\ gpc' = "returned"
    /\ UNCHANGED <<local_edges, result, m, wpc, todo, done, mainIdx, lockCount, gconst,
                   dvars, lvars>>

NextGen ==
    \/ \E w \in Workers : StartIteration(w)
    \/ \E w \in Workers : AddEdge(w)
    \/ \E w \in Workers : Lock(w)
    \/ \E w \in Workers : InsertUnlockClear(w)
    \/ Barrier
    \/ FinalFlush
    \/ Return

SpecGen == InitGen /\ [][NextGen]_vars
SpecSel == InitSel /\ [][NextGen]_vars

(* ---- claims about generateEdges ---- *)
NodeIndices == 0..(numTargets + numSources)
EdgeUniverse == NodeIndices \X NodeIndices
\* the edges emitted for source s, as addEdge stores them
EmittedFor(s) == [i \in 1..Len(EdgeCalls(s)) |-> SwapIfGreater(EdgeCalls(s)[i])]
\* how often e is emitted over all sources; the edges emitted in all, and by
\* worker w; the full blocks of workers 1..w
EmittedCount(e) ==
    Cardinality({x \in Sources \X {1, 2} :
                    x[2] <= Len(EmittedFor(x[1])) /\ EmittedFor(x[1])[x[2]] = e})
TotalEmitted == Cardinality({x \in Sources \X {1, 2} : x[2] <= Len(EmittedFor(x[1]))})
EmittedBy(w) ==
    Cardinality({x \in (1..Len(chunk[w])) \X {1, 2} :
                    x[2] <= Len(EmittedFor(chunk[w][x[1]]))})
RECURSIVE FullBlocks(_)
FullBlocks(w) == IF w = 0 THEN 0 ELSE (EmittedBy(w) \div block_size) + FullBlocks(w - 1)

\* C4: the returned vector is, as a multiset, the union of the edges emitted
\* for each source: nothing lost, nothing flushed twice.
C4_ResultIsUnionOfEmitted ==
    gpc = "returned" =>
        /\ Len(result) = TotalEmitted
        /\ \A e \in EdgeUniverse : Occurrences(e, result) = EmittedCount(e)

\* two workers ran, one flushed a full block inside the region, and the final
\* flush still found edges in a buffer
C4_Witness ==
    /\ gpc = "returned"
    /\ num_threads >= 2
    /\ \A w \in Workers : Len(chunk[w]) >= 1
    /\ lockCount > num_threads
    /\ \E w \in Workers : local_edges[w] # <<>>
    /\ Len(result) >= 3

\* C10: the mutex is acquired at most (emitted edges / block size) + workers
\* times; inside the region only by a worker whose buffer holds exactly
\* block-size edges, after it once per worker buffer.
C10_LockAcquisitionsBounded ==
    gpc \in {"parallel", "final", "returned"} =>
        /\ lockCount <= (TotalEmitted \div block_size) + num_threads
        /\ gpc = "parallel" => lockCount <= TotalEmitted \div block_size
        /\ \A w \in Workers :
              wpc[w] \in {"lock", "insert"} => Len(local_edges[w]) = block_size
        /\ gpc = "returned" => lockCount = FullBlocks(num_threads) + num_threads

\* a run with block size 2 in which the bound is met exactly and a worker
\* returned with a single edge left in its buffer
C10_Witness ==
    /\ gpc = "returned"
    /\ block_size = 2
    /\ num_threads = 2
    /\ lockCount = (TotalEmitted \div block_size) + num_threads
    /\ lockCount > num_threads
    /\ \E w \in Workers : Len(local_edges[w]) = 1

\* C6: every raw edge of the result has u # v and u <= v, in both modes, for
\* every non-empty source sequence and every target sequence of at least one
\* node.
C6_EdgesAreCanonicalNoLoops ==
    (gpc = "returned" /\ numSources >= 1 /\ numTargets >= 1) =>
        \A i \in 1..Len(result) :
            result[i][1] # result[i][2] /\ result[i][1] <= result[i][2]

\* the reference selection: the target of least distance, and the target of
\* least distance among the others
DistinctDistances(s) ==
    \A a, b \in Targets : a # b => weightedDistance(a, s) # weightedDistance(b, s)
ArgMin(s, among) ==
    CHOOSE t \in among :
        \A o \in among : weightedDistance(t, s) <= weightedDistance(o, s)
Nearest(s) == ArgMin(s, Targets)
SecondNearest(s) == ArgMin(s, Targets \ {Nearest(s)})

\* C8: with at least two targets at pairwise distinct distances the code
\* selects the nearest target and the nearest among the others, wherever the
\* nearest stands; in normal mode the result then holds exactly one edge per
\* source, joining the two.
C8_SelectsNearestAndSecond ==
    (gpc # "idle" /\ numTargets >= 2) =>
        /\ \A s \in Sources : DistinctDistances(s) =>
              /\ nearestOf(s) = Nearest(s)
              /\ secondNearestOf(s) = SecondNearest(s)
              /\ ~debugMode => EdgeCalls(s) = << <<Nearest(s), SecondNearest(s)>> >>
        /\ (gpc = "returned" /\ ~debugMode /\ \A s \in Sources : DistinctDistances(s)) =>
              /\ Len(result) = numSources
              /\ \A e \in EdgeUniverse :
                    Occurrences(e, result) =
                        Cardinality({s \in Sources :
                            SwapIfGreater(<<Nearest(s), SecondNearest(s)>>) = e})

\* normal mode, three targets at distinct distances, the nearest last for one
\* source and in the middle for the other, the second nearest first
C8_Witness ==
    /\ gpc = "returned"
    /\ ~debugMode
    /\ numTargets = 3
    /\ numSources = 2
    /\ \A s \in Sources : DistinctDistances(s)
    /\ nearestOf(0) = 2 /\ secondNearestOf(0) = 0
    /\ nearestOf(1) = 1 /\ secondNearestOf(1) = 0
    /\ Len(result) = 2

====
